---- MODULE Spec2Model ----
(***************************************************************************)
(* A model of the invoice field extractor: the page text acquirer          *)
(* (extract_text_from_pdf, two variants), the regex cascade                *)
(* (extract_fields, two variants), the model-based strategy                *)
(* (extract_with_llm) and the comparison harness (process_invoices).       *)
(*                                                                         *)
(* Texts are real strings.  The regular expressions of the source are      *)
(* written as syntax trees and matched by a backtracking matcher that      *)
(* follows Python's re: leftmost match, alternatives in order, greedy      *)
(* repetition.  A float that the code parses from a two-decimal token is   *)
(* kept as its number of hundredths; an accuracy percentage is kept as     *)
(* its number of hundredths of a percent.                                  *)
(***************************************************************************)
EXTENDS Integers, Sequences, FiniteSets, TLC

VARIABLES
    \* the regex cascade
    doc,          \* the document as a sequence of phrases
    source_file,  \* the identifier handed to the call (also to the adapter)
    variant,      \* which extract_fields: "field_extractor" | "llm_extractor"
    out,          \* the outcome of the call
    cpc,          \* "start" | "done"
    \* the model-based strategy
    entry,        \* the function called
    svc,          \* what the completion service does
    llm_out,      \* the outcome of the call
    lpc,          \* "start" | "done"
    \* the page text acquirer
    pdf,          \* the document: whether it opens, and its pages
    reader,       \* which extract_text_from_pdf: "field_extractor" | "pdf_reader"
    pdf_out,      \* the outcome of the call
    ppc,          \* "start" | "done"
    \* the comparison of one document's two records
    fields_regex, fields_llm, gt,
    compared,     \* the outcome: differences and accuracy
    mpc,          \* "start" | "done"
    \* process_invoices
    input_exists, \* os.path.exists(input_path)
    listing,      \* os.listdir(input_path), in enumeration order
    gt_data,      \* the ground truth, by source file
    files,        \* the listed files that end in .pdf or .txt
    next_file,    \* the index of the next file of the loop
    all_results,  \* the ComparisonRecords so far
    saved,        \* what save_results wrote
    summary,      \* the averages logged at the end
    rpc           \* "loop" | "done" | "returned" | "crashed"

cvars == <<doc, source_file, variant, out, cpc>>
lvars == <<entry, svc, llm_out, lpc>>
pvars == <<pdf, reader, pdf_out, ppc>>
mvars == <<fields_regex, fields_llm, gt, compared, mpc>>
rvars == <<input_exists, listing, gt_data, files, next_file, all_results, saved, summary, rpc>>
vars == <<cvars, lvars, pvars, mvars, rvars>>

(***************************************************************************)
(* Characters and strings                                                  *)
(***************************************************************************)
Digit == {"0", "1", "2", "3", "4", "5", "6", "7", "8", "9"}
LowerAlpha == {"a", "b", "c", "d", "e", "f", "g", "h", "i", "j", "k", "l", "m",
               "n", "o", "p", "q", "r", "s", "t", "u", "v", "w", "x", "y", "z"}
UpperAlpha == {"A", "B", "C", "D", "E", "F", "G", "H", "I", "J", "K", "L", "M",
               "N", "O", "P", "Q", "R", "S", "T", "U", "V", "W", "X", "Y", "Z"}
Alpha == LowerAlpha \cup UpperAlpha
\* \s of a str pattern, and what str.strip() removes (the ASCII part)
Space == {" ", "\t", "\n", "\r", "\f"}
\* \w of a str pattern (the ASCII part)
Word == Alpha \cup Digit \cup {"_"}
CharAt(s, i) == SubSeq(s, i, i)

\* the lower-case letter of each upper-case letter, and back
ToLower ==
    [c \in UpperAlpha |->
        CharAt("abcdefghijklmnopqrstuvwxyz",
               CHOOSE k \in 1..26 : CharAt("ABCDEFGHIJKLMNOPQRSTUVWXYZ", k) = c)]
ToUpper ==
    [c \in LowerAlpha |->
        CharAt("ABCDEFGHIJKLMNOPQRSTUVWXYZ",
               CHOOSE k \in 1..26 : CharAt("abcdefghijklmnopqrstuvwxyz", k) = c)]

RECURSIVE MapChars(_, _, _)
\* s[i:] with every cased letter mapped through f
MapChars(s, i, f) ==
    IF i > Len(s) THEN ""
    ELSE (IF CharAt(s, i) \in DOMAIN f THEN f[CharAt(s, i)] ELSE CharAt(s, i))
         \o MapChars(s, i + 1, f)

\* str.lower(), str.upper()
Lower(s) == MapChars(s, 1, ToLower)
Upper(s) == MapChars(s, 1, ToUpper)

RECURSIVE LStrip(_)
LStrip(s) == IF Len(s) > 0 /\ CharAt(s, 1) \in Space THEN LStrip(SubSeq(s, 2, Len(s))) ELSE s
RECURSIVE RStrip(_)
RStrip(s) ==
    IF Len(s) > 0 /\ CharAt(s, Len(s)) \in Space THEN RStrip(SubSeq(s, 1, Len(s) - 1)) ELSE s
\* str.strip()
Strip(s) == LStrip(RStrip(s))

\* "needle in s" for a one-character needle
Contains(s, c) == \E i \in 1..Len(s) : CharAt(s, i) = c

RECURSIVE RemoveChar(_, _)
\* s.replace(c, "")
RemoveChar(s, c) ==
    IF Len(s) = 0 THEN ""
    ELSE (IF CharAt(s, 1) = c THEN "" ELSE CharAt(s, 1)) \o RemoveChar(SubSeq(s, 2, Len(s)), c)

RECURSIVE Join(_, _)
\* sep.join(xs)
Join(sep, xs) ==
    IF xs = <<>> THEN ""
    ELSE IF Len(xs) = 1 THEN xs[1]
    ELSE xs[1] \o sep \o Join(sep, Tail(xs))

RECURSIVE SplitFrom(_, _, _)
SplitFrom(s, i, start) ==
    IF i > Len(s)
    THEN IF start <= Len(s) THEN <<SubSeq(s, start, Len(s))>> ELSE <<>>
    ELSE IF CharAt(s, i) \in {"\n", "\r", "\f"}
         THEN <<SubSeq(s, start, i - 1)>> \o SplitFrom(s, i + 1, i + 1)
         ELSE SplitFrom(s, i + 1, start)
\* str.splitlines(): the lines without their line breaks; no last empty line
splitlines(s) == SplitFrom(s, 1, 1)

(***************************************************************************)
(* Regular expressions: syntax trees and Python's backtracking order       *)
(***************************************************************************)
Lit(s) == [op |-> "lit", s |-> s]
Cls(S) == [op |-> "cls", set |-> S]
Cat(rs) == [op |-> "cat", args |-> rs]
Alt(rs) == [op |-> "alt", args |-> rs]
\* r{lo,hi}, and r{lo,} when unbounded
Rep(r, lo, hi) == [op |-> "rep", r |-> r, lo |-> lo, hi |-> hi, unbounded |-> FALSE]
Opt(r) == Rep(r, 0, 1)
Plus(r) == [op |-> "rep", r |-> r, lo |-> 1, hi |-> 0, unbounded |-> TRUE]
WordBoundary == [op |-> "wb"]
Empty == Cat(<<>>)

IsWordAt(s, k) == k >= 1 /\ k <= Len(s) /\ CharAt(s, k) \in Word

RECURSIVE Ends(_, _, _)
RECURSIVE EndsFromAll(_, _, _, _)
RECURSIVE CatEnds(_, _, _, _)
RECURSIVE AltEnds(_, _, _, _)
RECURSIVE RepEnds(_, _, _, _, _, _)

\* The offsets at which a match of r that starts at offset i of s can end, in
\* the order in which the backtracking matcher tries them.
Ends(r, s, i) ==
    CASE r.op = "lit" ->
           IF i + Len(r.s) <= Len(s) /\ SubSeq(s, i + 1, i + Len(r.s)) = r.s
           THEN <<i + Len(r.s)>> ELSE <<>>
      [] r.op = "cls" ->
           IF i < Len(s) /\ CharAt(s, i + 1) \in r.set THEN <<i + 1>> ELSE <<>>
      [] r.op = "wb" ->
           IF IsWordAt(s, i) # IsWordAt(s, i + 1) THEN <<i>> ELSE <<>>
      [] r.op = "cat" -> CatEnds(r.args, 1, s, <<i>>)
      [] r.op = "alt" -> AltEnds(r.args, 1, s, i)
      [] r.op = "rep" -> RepEnds(r.r, r.lo, r.hi, r.unbounded, s, i)

EndsFromAll(r, s, starts, j) ==
    IF j > Len(starts) THEN <<>>
    ELSE Ends(r, s, starts[j]) \o EndsFromAll(r, s, starts, j + 1)

CatEnds(rs, k, s, starts) ==
    IF k > Len(rs) \/ starts = <<>> THEN starts
    ELSE CatEnds(rs, k + 1, s, EndsFromAll(rs[k], s, starts, 1))

AltEnds(rs, k, s, i) ==
    IF k > Len(rs) THEN <<>>
    ELSE Ends(rs[k], s, i) \o AltEnds(rs, k + 1, s, i)

RECURSIVE RepFromAll(_, _, _, _, _, _, _)
RepFromAll(r, lo, hi, unb, s, starts, j) ==
    IF j > Len(starts) THEN <<>>
    ELSE RepEnds(r, lo, hi, unb, s, starts[j]) \o RepFromAll(r, lo, hi, unb, s, starts, j + 1)

\* greedy: one more repetition first, stopping here last
RepEnds(r, lo, hi, unb, s, i) ==
    IF ~unb /\ hi = 0 THEN <<i>>
    ELSE RepFromAll(r, IF lo > 0 THEN lo - 1 ELSE 0, IF unb THEN 0 ELSE hi - 1, unb,
                    s, Ends(r, s, i), 1)
         \o (IF lo <= 0 THEN <<i>> ELSE <<>>)

\* A pattern with one capturing group: what precedes it, the group, what follows.
Pattern(pre, grp, post, ic) == [pre |-> pre, grp |-> grp, post |-> post, ic |-> ic]

NoMatch == [found |-> FALSE, start |-> 0, gs |-> 0, ge |-> 0, end |-> 0]

\* the first of two attempts that matched
OrMatch(m, other) == IF m.found THEN m ELSE other

\* the match with the group at e1..e2, if what follows the group matches at e2
Closed(i, e1, e2, e3s) ==
    IF e3s # <<>> THEN [found |-> TRUE, start |-> i, gs |-> e1, ge |-> e2, end |-> e3s[1]]
    ELSE NoMatch

RECURSIVE FirstGroupEnd(_, _, _, _, _, _)
FirstGroupEnd(p, s, i, e1, e2s, j) ==
    IF j > Len(e2s) THEN NoMatch
    ELSE OrMatch(Closed(i, e1, e2s[j], Ends(p.post, s, e2s[j])),
                 FirstGroupEnd(p, s, i, e1, e2s, j + 1))

RECURSIVE FirstGroupStart(_, _, _, _, _)
FirstGroupStart(p, s, i, e1s, j) ==
    IF j > Len(e1s) THEN NoMatch
    ELSE OrMatch(FirstGroupEnd(p, s, i, e1s[j], Ends(p.grp, s, e1s[j]), 1),
                 FirstGroupStart(p, s, i, e1s, j + 1))

\* pattern.match at offset i
MatchAt(p, s, i) == FirstGroupStart(p, s, i, Ends(p.pre, s, i), 1)

RECURSIVE SearchFrom(_, _, _)
SearchFrom(p, s, i) ==
    IF i > Len(s) THEN NoMatch
    ELSE OrMatch(MatchAt(p, s, i), SearchFrom(p, s, i + 1))

\* re.search(p, text[, re.IGNORECASE]): the leftmost match; with IGNORECASE the
\* patterns below are written in lower case and matched on the lowered text.
search(p, text) == SearchFrom(p, IF p.ic THEN Lower(text) ELSE text, 0)

\* m.group(1)
group1(m, text) == SubSeq(text, m.gs + 1, m.ge)

RECURSIVE FindAllFrom(_, _, _, _)
RECURSIVE FindAllAfter(_, _, _, _)
FindAllAfter(m, p, s, text) ==
    IF ~m.found THEN <<>>
    ELSE <<group1(m, text)>>
         \o FindAllFrom(p, s, text, IF m.end > m.start THEN m.end ELSE m.end + 1)
FindAllFrom(p, s, text, i) == FindAllAfter(SearchFrom(p, s, i), p, s, text)

\* re.findall(p, text): the non-overlapping matches, left to right
findall(p, text) == FindAllFrom(p, IF p.ic THEN Lower(text) ELSE text, text, 0)

(***************************************************************************)
(* Python values                                                           *)
(***************************************************************************)
None == [kind |-> "none"]
Str(s) == [kind |-> "str", val |-> s]
\* a float that has at most two decimals, as its number of hundredths
Float(c) == [kind |-> "float", val |-> c]
\* an int
Int_(n) == [kind |-> "int", val |-> n]

Hundredths(v) == IF v.kind = "int" THEN 100 * v.val ELSE v.val
\* a == b of Python: numbers by value (1 == 1.0), the rest by kind and value
PyEq(a, b) ==
    IF a.kind \in {"float", "int"} /\ b.kind \in {"float", "int"} THEN Hundredths(a) = Hundredths(b) ELSE a = b

\* the outcome of a call: a returned value, or a raised exception of a class
Ok(v) == [raised |-> FALSE, exc |-> "", value |-> v]
Raise(exc) == [raised |-> TRUE, exc |-> exc, value |-> None]
\* the classes the model raises: all are subclasses of Exception
ExceptionClasses ==
    {"ValueError", "ImportError", "AttributeError", "ZeroDivisionError", "OSError",
     "OpenAIError", "KeyError", "JSONDecodeError", "TesseractNotFoundError", "FileDataError"}
IsException(exc) == exc \in ExceptionClasses

\* d.get(k) of a dict d
Get(d, k) == IF k \in DOMAIN d THEN d[k] ELSE None

DIGITS == "0123456789"
DigitVal(c) == (CHOOSE k \in 1..10 : CharAt(DIGITS, k) = c) - 1

RECURSIVE ParseNat(_, _)
ParseNat(s, acc) ==
    IF Len(s) = 0 THEN acc
    ELSE ParseNat(SubSeq(s, 2, Len(s)), 10 * acc + DigitVal(CharAt(s, 1)))

AllDigits(s) == \A i \in 1..Len(s) : CharAt(s, i) \in Digit
DotAt(s) == IF Contains(s, ".") THEN CHOOSE i \in 1..Len(s) : CharAt(s, i) = "." ELSE 0

\* float(s) for the strings the patterns hand it: digits, then a dot and at most two
\* digits.  The value is kept in hundredths; a string with no digit, or with a
\* character that is not a digit beside the first dot, raises ValueError.
float(s) ==
    LET d == DotAt(s)
        ip == IF d = 0 THEN s ELSE SubSeq(s, 1, d - 1)
        fp == IF d = 0 THEN "" ELSE SubSeq(s, d + 1, Len(s))
    IN  IF AllDigits(ip) /\ AllDigits(fp) /\ Len(ip) + Len(fp) > 0 /\ Len(fp) <= 2
        THEN Ok(Float(100 * ParseNat(ip, 0) + (IF Len(fp) = 1 THEN 10 ELSE 1) * ParseNat(fp, 0)))
        ELSE Raise("ValueError")

\* a list with one more element in front, unless a conversion raised
Cons(f, rest) ==
    IF f.raised THEN f ELSE IF rest.raised THEN rest ELSE Ok(<<f.value>> \o rest.value)

RECURSIVE FloatsOf(_, _)
\* [float(x.replace(",", "")) for x in xs]
FloatsOf(xs, i) ==
    IF i > Len(xs) THEN Ok(<<>>)
    ELSE Cons(float(RemoveChar(xs[i], ",")), FloatsOf(xs, i + 1))

\* max(numbers): ValueError on an empty list
max(numbers) ==
    IF numbers = <<>> THEN Raise("ValueError")
    ELSE Ok(numbers[CHOOSE i \in 1..Len(numbers) :
                       \A j \in 1..Len(numbers) : numbers[j].val <= numbers[i].val])

(***************************************************************************)
(* The patterns of utils/field_extractor.py and llm_extractor.py           *)
(***************************************************************************)
Ws == [op |-> "rep", r |-> Cls(Space), lo |-> 0, hi |-> 0, unbounded |-> TRUE]
ColonDash == Opt(Cls({":", "-"}))
IdToken == Plus(Cls(Alpha \cup Digit \cup {"-", "/"}))
D(lo, hi) == Rep(Cls(Digit), lo, hi)
DateSep == Cls({"/", "-"})
W1 == Plus(Cls(Word))
TwoDecimal == Cat(<<Plus(Cls(Digit \cup {","})), Lit("."), D(2, 2)>>)
VendorChars == Plus(Cls(Alpha \cup Digit \cup Space \cup {",", "&", ".", "-"}))

\* r"Invoice\s*#\s*[:\-]?\s*([A-Za-z0-9\-\/]+)", re.IGNORECASE
InvoiceHashPattern ==
    Pattern(Cat(<<Lit("invoice"), Ws, Lit("#"), Ws, ColonDash, Ws>>), IdToken, Empty, TRUE)
\* r"Invoice\s*No[:\-]?\s*([A-Za-z0-9\-\/]+)", re.IGNORECASE
InvoiceNoPattern ==
    Pattern(Cat(<<Lit("invoice"), Ws, Lit("no"), ColonDash, Ws>>), IdToken, Empty, TRUE)
\* r"(?:Inv|Bill)\s*(?:No|#)[:\-]?\s*([A-Za-z0-9\-\/]+)", re.IGNORECASE
InvBillPattern ==
    Pattern(Cat(<<Alt(<<Lit("inv"), Lit("bill")>>), Ws, Alt(<<Lit("no"), Lit("#")>>),
                  ColonDash, Ws>>), IdToken, Empty, TRUE)

\* the four date shapes of field_extractor.py
DateShapes ==
    Alt(<<Cat(<<D(1, 2), DateSep, D(1, 2), DateSep, D(2, 4)>>),
          Cat(<<D(4, 4), DateSep, D(1, 2), DateSep, D(1, 2)>>),
          Cat(<<D(1, 2), Ws, W1, Ws, D(2, 4)>>),
          Cat(<<W1, Ws, D(1, 2), Lit(","), Ws, D(4, 4)>>)>>)
\* r"(?:Dated|Date|Invoice\s*Date)[:\-]?\s*(<shapes>)", re.IGNORECASE
LabeledDatePattern ==
    Pattern(Cat(<<Alt(<<Lit("dated"), Lit("date"), Cat(<<Lit("invoice"), Ws, Lit("date")>>)>>),
                  ColonDash, Ws>>), DateShapes, Empty, TRUE)
\* r"(<shapes>)", no flags
AnyDatePattern == Pattern(Empty, DateShapes, Empty, FALSE)

\* r"\b([A-Za-z0-9\s,&\.-]+(?:Ltd|Limited|Pvt|LLP|Inc|Corporation|Company|Processing))\b"
VendorPattern ==
    Pattern(WordBoundary,
            Cat(<<VendorChars,
                  Alt(<<Lit("ltd"), Lit("limited"), Lit("pvt"), Lit("llp"), Lit("inc"),
                        Lit("corporation"), Lit("company"), Lit("processing")>>)>>),
            WordBoundary, TRUE)

\* r"(?:Total\s*Amount|Amount\s*Due|Invoice\s*Total|Balance\s*Due)[:\-]?\s*([\d,]+\.\d{2})"
TotalPattern ==
    Pattern(Cat(<<Alt(<<Cat(<<Lit("total"), Ws, Lit("amount")>>),
                        Cat(<<Lit("amount"), Ws, Lit("due")>>),
                        Cat(<<Lit("invoice"), Ws, Lit("total")>>),
                        Cat(<<Lit("balance"), Ws, Lit("due")>>)>>),
                  ColonDash, Ws>>), TwoDecimal, Empty, TRUE)
\* r"[\d,]+\.\d{2}"
NumberPattern == Pattern(Empty, TwoDecimal, Empty, FALSE)

\* r"\b(GBP|USD|INR|EUR|CAD|AUD)\b", re.IGNORECASE
CurrencyPattern ==
    Pattern(WordBoundary,
            Alt(<<Lit("gbp"), Lit("usd"), Lit("inr"), Lit("eur"), Lit("cad"), Lit("aud")>>),
            WordBoundary, TRUE)

\* llm_extractor.py, line 32
AltInvoicePattern ==
    Pattern(Alt(<<Cat(<<Lit("invoice"), Ws, Opt(Alt(<<Lit("no"), Lit("#")>>)), ColonDash, Ws>>),
                  Cat(<<Lit("inv"), Ws, Lit("no"), ColonDash, Ws>>),
                  Cat(<<Lit("bill"), Ws, Lit("no"), ColonDash, Ws>>)>>),
            IdToken, Empty, TRUE)
\* llm_extractor.py, line 37
AltDatePattern ==
    Pattern(Cat(<<Alt(<<Lit("date"), Lit("dated"), Cat(<<Lit("invoice"), Ws, Lit("date")>>)>>),
                  ColonDash, Ws>>),
            Cat(<<Rep(Cls(Alpha), 3, 9), Ws, D(1, 2), Opt(Lit(",")), Ws, D(4, 4)>>),
            Empty, TRUE)
\* llm_extractor.py, line 42
AltVendorPattern ==
    Pattern(Empty,
            Cat(<<VendorChars,
                  Alt(<<Lit("ltd"), Lit("limited"), Lit("pvt"), Lit("llp"), Lit("inc"),
                        Lit("company"), Lit("corporation")>>)>>),
            Empty, TRUE)
\* llm_extractor.py, line 47
AltTotalPattern ==
    Pattern(Cat(<<Alt(<<Lit("total"),
                        Cat(<<Lit("amount"), Ws, Lit("due")>>),
                        Cat(<<Lit("invoice"), Ws, Lit("total")>>),
                        Cat(<<Lit("balance"), Ws, Lit("due")>>)>>),
                  ColonDash, Ws>>), TwoDecimal, Empty, TRUE)

(***************************************************************************)
(* The regex cascade                                                       *)
(***************************************************************************)

Fields == {"invoice_number", "invoice_date", "vendor_name", "total_amount", "currency"}
Keys == Fields \cup {"doc_type", "source_file"}

\* the dict both variants start from: every extractable field None
EmptyRecord(sf) ==
    [doc_type |-> Str("invoice"), invoice_number |-> None, invoice_date |-> None,
     vendor_name |-> None, total_amount |-> None, currency |-> None, source_file |-> sf]

\* a tier of a field: the stripped group of an accepted match, or None
Group(m, text) == IF m.found THEN Str(Strip(group1(m, text))) ELSE None
\* "if m and '@' not in m.group(1)"
AcceptedGroup(m, text) ==
    IF m.found /\ ~Contains(group1(m, text), "@") THEN Str(Strip(group1(m, text))) ELSE None
\* the first tier that gave a value
OrElse(v, other) == IF v # None THEN v ELSE other

InvoiceNumber(text) ==
    OrElse(AcceptedGroup(search(InvoiceHashPattern, text), text),
           OrElse(AcceptedGroup(search(InvoiceNoPattern, text), text),
                  AcceptedGroup(search(InvBillPattern, text), text)))

InvoiceDate(text) ==
    OrElse(Group(search(LabeledDatePattern, text), text),
           Group(search(AnyDatePattern, text), text))

RECURSIVE FirstVendorLine(_, _)
\* the loop over text.splitlines(): the first line the pattern matches
FirstVendorLine(lines, i) ==
    IF i > Len(lines) THEN None
    ELSE OrElse(Group(search(VendorPattern, Strip(lines[i])), Strip(lines[i])),
                FirstVendorLine(lines, i + 1))

\* "if vendor_name:" is false for None and for the empty string
IfSet(vendor_name) == IF vendor_name # None /\ vendor_name # Str("") THEN vendor_name ELSE None
VendorName(text) == IfSet(FirstVendorLine(splitlines(text), 1))

\* a faulty variant: max(numbers) without the "if numbers" guard
MaxUnguarded(numbers) == IF numbers.raised THEN numbers ELSE max(numbers.value)

\* "if numbers: max(numbers)", else the field stays None
MaxOrNone(numbers) ==
    IF numbers.raised THEN numbers
    ELSE IF numbers.value # <<>> THEN max(numbers.value)
    ELSE Ok(None)

\* the labeled total if there is one, else the largest two-decimal number
TotalFrom(m, text) ==
    IF m.found THEN float(RemoveChar(group1(m, text), ","))
    ELSE MaxOrNone(FloatsOf(findall(NumberPattern, text), 1))
TotalAmount(text) == TotalFrom(search(TotalPattern, text), text)

\* a faulty variant: the dollar sign tested before the pound sign
CurrencyDollarFirst(m, text) ==
    IF m.found THEN Str(Upper(group1(m, text)))
    ELSE IF Contains(text, "$") THEN Str("USD")
    ELSE IF Contains(text, "£") THEN Str("GBP")
    ELSE IF Contains(text, "₹") THEN Str("INR")
    ELSE None

CurrencyFrom(m, text) ==
    IF m.found THEN Str(Upper(group1(m, text)))
    ELSE IF Contains(text, "£") THEN Str("GBP")
    ELSE IF Contains(text, "$") THEN Str("USD")
    ELSE IF Contains(text, "₹") THEN Str("INR")
    ELSE None
Currency(text) == CurrencyFrom(search(CurrencyPattern, text), text)

\* the record with its five fields set, unless the total raised
Filled(result, number, date, vendor, total, currency) ==
    IF total.raised THEN total
    ELSE Ok([result EXCEPT !.invoice_number = number, !.invoice_date = date,
                           !.vendor_name = vendor, !.total_amount = total.value,
                           !.currency = currency])

\* utils/field_extractor.py: extract_fields(text, source_file, mode)
extract_fields(text, sf, mode) ==
    LET result == EmptyRecord(sf) IN
    IF mode = "regex"
    THEN Filled(result, InvoiceNumber(text), InvoiceDate(text), VendorName(text),
                TotalAmount(text), Currency(text))
    ELSE IF mode = "llm"
    THEN \* llm_extractor.py defines no llm_extract_invoice: the import of line 156
         \* raises ImportError, and the except clause returns the empty record
         IF IsException("ImportError") THEN Ok(result) ELSE Raise("ImportError")
    ELSE Raise("ValueError")

(***************************************************************************)
(* The model-based strategy (llm_extractor.py)                             *)
(***************************************************************************)
ResponseKeys == {"Invoice Number", "Invoice Date", "Vendor Name", "Total Amount", "Currency"}

\* json.loads(content): a value, or JSONDecodeError for text that is not JSON
json_loads(content) ==
    IF content.json = "invalid" THEN Raise("JSONDecodeError") ELSE Ok(content)

\* lines 91-99: the record built from the parsed response
Mapped(extracted, sf) ==
    IF extracted.raised THEN extracted
    ELSE IF extracted.value.json # "object" THEN Raise("AttributeError")
    ELSE Ok([doc_type |-> Str("invoice"),
             invoice_number |-> Get(extracted.value.members, "Invoice Number"),
             invoice_date |-> Get(extracted.value.members, "Invoice Date"),
             vendor_name |-> Get(extracted.value.members, "Vendor Name"),
             total_amount |-> Get(extracted.value.members, "Total Amount"),
             currency |-> Get(extracted.value.members, "Currency"),
             source_file |-> sf])

\* lines 82-99: the body of the try block
Completion(service, sf) ==
    IF service.create = "raises" THEN Raise("OpenAIError")
    ELSE IF service.create = "no_choices" THEN Raise("KeyError")
    ELSE IF service.content.json = "missing" THEN Raise("AttributeError")
    ELSE Mapped(json_loads(service.content), sf)

\* lines 100-110: "except Exception" returns the empty record
OrEmptyRecord(attempt, sf) ==
    IF attempt.raised /\ IsException(attempt.exc) THEN Ok(EmptyRecord(sf)) ELSE attempt

\* a faulty variant: the try block without its handler
extract_with_llm_unguarded(text, sf, service) == Completion(service, sf)

\* extract_with_llm(text, source_file), given what the completion service does
extract_with_llm(text, sf, service) == OrEmptyRecord(Completion(service, sf), sf)

\* "if m: float(m.group(1).replace(',', ''))", else the field stays None
LabeledTotal(m, text) ==
    IF m.found THEN float(RemoveChar(group1(m, text), ",")) ELSE Ok(None)

\* llm_extractor.py: extract_fields(text, source_file, mode)
llm_extractor_extract_fields(text, sf, mode, service) ==
    IF mode = "llm" THEN extract_with_llm(text, sf, service)
    ELSE Filled(EmptyRecord(sf),
                AcceptedGroup(search(AltInvoicePattern, text), text),
                Group(search(AltDatePattern, text), text),
                Group(search(AltVendorPattern, text), text),
                LabeledTotal(search(AltTotalPattern, text), text),
                Currency(text))

\* what the completion service can do
JsonObjects ==
    UNION {[ks -> {None, Str("INV-1"), Float(23050)}] : ks \in SUBSET ResponseKeys}
Contents ==
    {[json |-> j, members |-> <<>>] : j \in {"missing", "invalid", "array", "string", "number", "null"}}
    \cup {[json |-> "object", members |-> o] : o \in JsonObjects}
NoContent == [json |-> "missing", members |-> <<>>]
Services ==
    {[create |-> c, content |-> NoContent] : c \in {"raises", "no_choices"}}
    \cup {[create |-> "ok", content |-> c] : c \in Contents}

(***************************************************************************)
(* The page text acquirer (two variants)                                   *)
(***************************************************************************)
\* "if text.strip()": a string that is not blank
NotBlank(s) == Strip(s) # ""

RECURSIVE FullTextFrom(_, _, _)
\* the loop of utils/field_extractor.py: no handler around the OCR fallback
FullTextFrom(ps, i, full_text) ==
    IF i > Len(ps) THEN Ok(full_text)
    ELSE IF NotBlank(ps[i].embedded)
         THEN FullTextFrom(ps, i + 1, full_text \o ps[i].embedded \o "\n")
         ELSE IF ps[i].ocr.raised THEN ps[i].ocr
              ELSE FullTextFrom(ps, i + 1, full_text \o ps[i].ocr.value \o "\n")

\* utils/field_extractor.py: extract_text_from_pdf(pdf_path), the one main.py imports
extract_text_from_pdf(d) ==
    IF ~d.opens THEN Raise("FileDataError") ELSE FullTextFrom(d.pages, 1, "")

RECURSIVE TextsFrom(_, _, _)
\* the loop of utils/pdf_reader.py: a failed OCR appends nothing
TextsFrom(ps, i, texts) ==
    IF i > Len(ps) THEN texts
    ELSE IF NotBlank(ps[i].embedded) THEN TextsFrom(ps, i + 1, Append(texts, ps[i].embedded))
         ELSE IF ps[i].ocr.raised /\ IsException(ps[i].ocr.exc) THEN TextsFrom(ps, i + 1, texts)
              ELSE TextsFrom(ps, i + 1, Append(texts, ps[i].ocr.value))

\* utils/pdf_reader.py: extract_text_from_pdf(pdf_path)
pdf_reader_extract_text_from_pdf(d) ==
    IF ~d.opens THEN Raise("FileDataError") ELSE Ok(Join("\n", TextsFrom(d.pages, 1, <<>>)))

(***************************************************************************)
(* The comparison harness (main.py)                                        *)
(***************************************************************************)
\* the integers q with |q - num/den| <= 1/2: what round(x, 2) can give for
\* x = num/den hundredths.  Off a tie that is one value; on an exact tie the
\* result depends on the binary float, and both neighbours are allowed.
Rounded(num, den) ==
    LET q == num \div den IN
    {c \in {q, q + 1} : 2 * (IF c * den >= num THEN c * den - num ELSE num - c * den) <= den}

\* a faulty variant: a field the regex strategy left empty is never reported
DifferencesOfFoundFields(regex, llm) ==
    [k \in {k \in DOMAIN regex : Get(regex, k) # None /\ ~PyEq(Get(regex, k), Get(llm, k))} |->
        [regex |-> Get(regex, k), llm |-> Get(llm, k)]]

\* main.py, lines 101-105
Differences(regex, llm) ==
    [k \in {k \in DOMAIN regex : ~PyEq(Get(regex, k), Get(llm, k))} |->
        [regex |-> Get(regex, k), llm |-> Get(llm, k)]]

\* a faulty variant: source_file counted among the correct fields
CorrectWithSourceFile(fields, truth) ==
    Cardinality({k \in DOMAIN truth : PyEq(Get(fields, k), Get(truth, k))})

\* "sum(1 for k in gt if k != 'source_file' and fields.get(k) == gt.get(k))"
Correct(fields, truth) ==
    Cardinality({k \in DOMAIN truth : k # "source_file" /\ PyEq(Get(fields, k), Get(truth, k))})

\* "if gt:" for the value of gt_data.get(file_name): None, or a dict
Truthy(truth) == truth # None /\ DOMAIN truth # {}

\* main.py, lines 108-119: the accuracy dicts the scoring can give, or the
\* exception it raises
Accuracy(regex, llm, truth) ==
    IF ~Truthy(truth) THEN {Ok([regex |-> 0, llm |-> 0])}
    ELSE LET total_fields == Cardinality(DOMAIN truth) - 1 IN
         IF total_fields = 0 THEN {Raise("ZeroDivisionError")}
         ELSE {Ok([regex |-> r, llm |-> l]) :
                  r \in Rounded(10000 * Correct(regex, truth), total_fields),
                  l \in Rounded(10000 * Correct(llm, truth), total_fields)}

\* main.py, lines 100-136: the ComparisonRecord of two records
Compare(file_name, regex, llm, truth) ==
    {IF a.raised THEN a
     ELSE Ok([source_file |-> file_name, regex |-> regex, llm |-> llm,
              differences |-> Differences(regex, llm), accuracy |-> a.value]) :
        a \in Accuracy(regex, llm, truth)}

\* main.py, lines 90-94: the text of one listed file
AcquireText(file) ==
    IF file.kind = "txt" THEN file.read ELSE extract_text_from_pdf(file.pdf)

\* main.py, lines 89-137: the body of the try block for one file
Scored(file_name, regex, llm, truth) ==
    IF regex.raised THEN {regex}
    ELSE IF llm.raised THEN {llm}
    ELSE Compare(file_name, regex.value, llm.value, truth)
\* main.py, lines 96-137: both strategies on the text, then the comparison
Strategies(text, file_name, truth) ==
    IF text.raised THEN {text}
    ELSE Scored(file_name, extract_fields(text.value, file_name, "regex"),
                extract_fields(text.value, file_name, "llm"), truth)
TryDocument(file, truths) ==
    Strategies(AcquireText(file), file.name, Get(truths, file.name.val))

\* a faulty variant: the loop body without "except Exception"
IterationUncaught(outcome, results) ==
    IF ~outcome.raised THEN [results |-> Append(results, outcome.value), crashed |-> FALSE]
    ELSE [results |-> results, crashed |-> TRUE]

\* main.py, lines 88-146: one iteration of the loop, from a given outcome of the
\* try block: the list afterwards, and whether an exception left the loop
Iteration(outcome, results) ==
    IF ~outcome.raised THEN [results |-> Append(results, outcome.value), crashed |-> FALSE]
    ELSE IF IsException(outcome.exc) THEN [results |-> results, crashed |-> FALSE]
    ELSE [results |-> results, crashed |-> TRUE]

\* main.py, lines 12-23
flatten_result(item) ==
    LET ks == {"source_file"}
              \cup {"regex_" \o k : k \in DOMAIN item.regex}
              \cup {"llm_" \o k : k \in DOMAIN item.llm}
              \cup {"diff_" \o k : k \in DOMAIN item.differences}
              \cup {"accuracy_" \o k : k \in DOMAIN item.accuracy}
    IN  [c \in ks |->
            IF c = "source_file" THEN item.source_file
            ELSE IF \E k \in DOMAIN item.regex : c = "regex_" \o k
                 THEN item.regex[CHOOSE k \in DOMAIN item.regex : c = "regex_" \o k]
            ELSE IF \E k \in DOMAIN item.llm : c = "llm_" \o k
                 THEN item.llm[CHOOSE k \in DOMAIN item.llm : c = "llm_" \o k]
            ELSE IF \E k \in DOMAIN item.differences : c = "diff_" \o k
                 THEN [kind |-> "repr",
                       val |-> item.differences[CHOOSE k \in DOMAIN item.differences :
                                                   c = "diff_" \o k]]
            ELSE [kind |-> "percent",
                  val |-> item.accuracy[CHOOSE k \in DOMAIN item.accuracy : c = "accuracy_" \o k]]]

NothingSaved == [format |-> "none", rows |-> <<>>]

\* main.py, lines 26-57: what is on disk after save_results(results, output_file)
save_results(results, extension, before) ==
    IF extension = ".json" THEN [format |-> "json", rows |-> results]
    ELSE IF extension = ".csv"
    THEN IF results # <<>>
         THEN LET flat == [i \in 1..Len(results) |-> flatten_result(results[i])]
                  all_keys == UNION {DOMAIN flat[i] : i \in 1..Len(flat)}
              IN  [format |-> "csv",
                   rows |-> [i \in 1..Len(flat) |->
                               [c \in all_keys |-> IF c \in DOMAIN flat[i] THEN flat[i][c]
                                                   ELSE Str("")]]]
         ELSE before
    ELSE before

RECURSIVE SumAccuracy(_, _, _)
SumAccuracy(results, strategy, i) ==
    IF i > Len(results) THEN 0
    ELSE results[i].accuracy[strategy] + SumAccuracy(results, strategy, i + 1)

NoSummary == [logged |-> FALSE, regex_avg |-> 0, llm_avg |-> 0]

\* main.py, lines 152-155: the averages the run can log
Summaries(results) ==
    IF results = <<>> THEN {NoSummary}
    ELSE {[logged |-> TRUE, regex_avg |-> r, llm_avg |-> l] :
             r \in Rounded(SumAccuracy(results, "regex", 1), Len(results)),
             l \in Rounded(SumAccuracy(results, "llm", 1), Len(results))}

\* main.py, line 79: the listed names that end in .pdf or .txt
RECURSIVE InvoiceFiles(_, _)
InvoiceFiles(names, i) ==
    IF i > Len(names) THEN <<>>
    ELSE (IF names[i].kind \in {"pdf", "txt"} THEN <<names[i]>> ELSE <<>>)
         \o InvoiceFiles(names, i + 1)

(***************************************************************************)
(* Inputs                                                                  *)
(***************************************************************************)
MaxPhrases == 3
MaxPages == 3
MaxFiles == 2

\* a text is a sequence of phrases joined by single spaces
Render(phrases) == Join(" ", phrases)
Docs(alphabet) == UNION {[1..n -> alphabet] : n \in 0..MaxPhrases}

NL == "\n"
CascadePhrases == {NL, "Invoice #", "INV-1", "12/03/2024", "Acme Ltd", "$230.50"}
TotalPhrases == {"Amount Due:", "45.00", "100.00", "230.50", "999.99", "1,200.00"}
VendorPhrases == {NL, "Acme Ltd", "Web: acme.io", "Acme Widgets", "12 High Street"}
CurrencyPhrases == {"GBP", "usd", "USDA", "£", "$", "₹"}

SourceFiles == {Str("a.pdf"), Str("b.txt")}

Pending == Ok(None)

\* the pages a document can have: embedded text, and what the OCR fallback does
PageKinds ==
    {[embedded |-> e, ocr |-> Ok("")] : e \in {"Alpha", "Beta"}}
    \cup {[embedded |-> e, ocr |-> o] :
             e \in {"", " "}, o \in {Ok(""), Ok("Scan"), Raise("TesseractNotFoundError")}}
Pdfs ==
    {[opens |-> FALSE, pages |-> <<>>]}
    \cup {[opens |-> TRUE, pages |-> ps] : ps \in UNION {[1..n -> PageKinds] : n \in 0..MaxPages}}

\* the records a strategy can return, and the ground truth there can be
With(inv, total, cur) ==
    [EmptyRecord(Str("a.pdf")) EXCEPT !.invoice_number = inv, !.total_amount = total,
                                      !.currency = cur]
RegexRecords ==
    {With(i, t, c) : i \in {None, Str("INV-1")}, t \in {None, Float(10000), Float(23050)},
                     c \in {None, Str("GBP"), Str("USD")}}
LlmRecords ==
    {With(i, t, c) : i \in {None, Str("INV-1"), Str("INV-2")},
                     t \in {None, Float(10000), Int_(100), Str("100.00")},
                     c \in {None, Str("GBP"), Str("USD")}}
TruthValues ==
    [invoice_number |-> {Str("INV-1")}, total_amount |-> {Float(10000), Int_(100)},
     currency |-> {Str("GBP"), None}]
\* the ground-truth dicts of one source file: source_file and any of the fields
TruthsFor(name) ==
    UNION {{[k \in ks \cup {"source_file"} |-> IF k = "source_file" THEN Str(name) ELSE f[k]] :
               f \in {g \in [ks -> UNION {TruthValues[k] : k \in DOMAIN TruthValues}] : \A k \in ks : g[k] \in TruthValues[k]}} :
           ks \in SUBSET DOMAIN TruthValues}


\* the files a directory can list: the i-th has its own name
NoPdf == [opens |-> FALSE, pages |-> <<>>]
FileContents ==
    {[kind |-> "other", read |-> Raise("OSError"), pdf |-> NoPdf],
     [kind |-> "txt", read |-> Raise("OSError"), pdf |-> NoPdf],
     [kind |-> "txt", read |-> Ok(Render(<<"Invoice #", "INV-1", "GBP">>)), pdf |-> NoPdf],
     [kind |-> "pdf", read |-> Raise("OSError"), pdf |-> NoPdf],
     [kind |-> "pdf", read |-> Raise("OSError"),
      pdf |-> [opens |-> TRUE,
               pages |-> <<[embedded |-> "Invoice # INV-1 $", ocr |-> Ok("")]>>]],
     [kind |-> "pdf", read |-> Raise("OSError"),
      pdf |-> [opens |-> TRUE,
               pages |-> <<[embedded |-> "", ocr |-> Raise("TesseractNotFoundError")]>>]]}
FileAt(i, c) == [name |-> Str("doc" \o CharAt(DIGITS, i + 1) \o "." \o
                              (IF c.kind = "other" THEN "md" ELSE c.kind)),
                 kind |-> c.kind, read |-> c.read,
                 pdf |-> c.pdf]
\* what the ground-truth file can hold for one source file
TruthOf(name, choice) ==
    IF choice = "bare" THEN [source_file |-> name]
    ELSE [source_file |-> name, invoice_number |-> Str("INV-1"), currency |-> Str("GBP"),
          vendor_name |-> None]

(***************************************************************************)
(* The state machines                                                      *)
(***************************************************************************)
CascadeIdle ==
    /\ doc = <<>> /\ variant = "field_extractor" /\ out = Pending /\ cpc = "idle"
LlmIdle ==
    /\ entry = "extract_with_llm" /\ svc = [create |-> "raises", content |-> NoContent]
    /\ llm_out = Pending /\ lpc = "idle"
PdfIdle ==
    /\ pdf = NoPdf /\ reader = "field_extractor" /\ pdf_out = Pending /\ ppc = "idle"
CompareIdle ==
    /\ fields_regex = EmptyRecord(Str("a.pdf")) /\ fields_llm = EmptyRecord(Str("a.pdf"))
    /\ gt = None /\ compared = Pending /\ mpc = "idle"
RunIdle ==
    /\ input_exists = FALSE /\ listing = <<>> /\ gt_data = <<>> /\ files = <<>>
    /\ next_file = 1 /\ all_results = <<>> /\ saved = NothingSaved /\ summary = NoSummary
    /\ rpc = "idle"

CascadeInit(alphabet, variants) ==
    /\ doc \in Docs(alphabet)
    /\ source_file \in SourceFiles
    /\ variant \in variants
    /\ out = Pending
    /\ cpc = "start"
    /\ LlmIdle /\ PdfIdle /\ CompareIdle /\ RunIdle

\* one call of extract_fields(text, source_file, mode="regex")
Extract ==
    /\ cpc = "start"
    /\ out' = IF variant = "field_extractor"
              THEN extract_fields(Render(doc), source_file, "regex")
              ELSE llm_extractor_extract_fields(Render(doc), source_file, "regex", svc)
    /\ cpc' = "done"
    /\ UNCHANGED <<doc, source_file, variant, lvars, pvars, mvars, rvars>>

InitCascade == CascadeInit(CascadePhrases, {"field_extractor"})
InitTotal == CascadeInit(TotalPhrases, {"field_extractor"})
InitVendor == CascadeInit(VendorPhrases, {"field_extractor", "llm_extractor"})
InitCurrency == CascadeInit(CurrencyPhrases, {"field_extractor", "llm_extractor"})
SpecCascade == InitCascade /\ [][Extract]_vars
SpecTotal == InitTotal /\ [][Extract]_vars
SpecVendor == InitVendor /\ [][Extract]_vars
SpecCurrency == InitCurrency /\ [][Extract]_vars

InitLlm ==
    /\ entry \in {"extract_with_llm", "llm_extractor.extract_fields",
                 "field_extractor.extract_fields"}
    /\ svc \in Services
    /\ source_file \in SourceFiles
    /\ llm_out = Pending
    /\ lpc = "start"
    /\ CascadeIdle /\ PdfIdle /\ CompareIdle /\ RunIdle

\* one call of the model-based strategy through one of its entry points
CallLlm ==
    /\ lpc = "start"
    /\ llm_out' = CASE entry = "extract_with_llm" -> extract_with_llm("", source_file, svc)
                    [] entry = "llm_extractor.extract_fields" ->
                         llm_extractor_extract_fields("", source_file, "llm", svc)
                    [] entry = "field_extractor.extract_fields" ->
                         extract_fields("", source_file, "llm")
    /\ lpc' = "done"
    /\ UNCHANGED <<entry, svc, source_file, doc, variant, out, cpc, pvars, mvars, rvars>>

SpecLlm == InitLlm /\ [][CallLlm]_vars

InitPdf ==
    /\ pdf \in Pdfs
    /\ reader \in {"field_extractor", "pdf_reader"}
    /\ pdf_out = Pending
    /\ ppc = "start"
    /\ source_file = Str("a.pdf")
    /\ CascadeIdle /\ LlmIdle /\ CompareIdle /\ RunIdle

\* one call of extract_text_from_pdf(pdf_path)
AcquirePdf ==
    /\ ppc = "start"
    /\ pdf_out' = IF reader = "field_extractor" THEN extract_text_from_pdf(pdf)
                  ELSE pdf_reader_extract_text_from_pdf(pdf)
    /\ ppc' = "done"
    /\ UNCHANGED <<pdf, reader, cvars, lvars, mvars, rvars>>

SpecPdf == InitPdf /\ [][AcquirePdf]_vars

InitCompare ==
    /\ fields_regex \in RegexRecords
    /\ fields_llm \in LlmRecords
    /\ gt \in {None} \cup TruthsFor("a.pdf")
    /\ compared = Pending
    /\ mpc = "start"
    /\ source_file = Str("a.pdf")
    /\ CascadeIdle /\ LlmIdle /\ PdfIdle /\ RunIdle

\* the differences and the scoring of one document's two records
CompareRecords ==
    /\ mpc = "start"
    /\ \E o \in Compare(source_file, fields_regex, fields_llm, gt) : compared' = o
    /\ mpc' = "done"
    /\ UNCHANGED <<fields_regex, fields_llm, gt, cvars, lvars, pvars, rvars>>

SpecCompare == InitCompare /\ [][CompareRecords]_vars

InitRun ==
    /\ input_exists \in BOOLEAN
    /\ \E n \in 0..MaxFiles :
         \E cs \in [1..n -> FileContents], ts \in [1..n -> {"absent", "fields", "bare"}] :
            /\ listing = [i \in 1..n |-> FileAt(i, cs[i])]
            /\ gt_data = [nm \in {FileAt(i, cs[i]).name.val : i \in {j \in 1..n : ts[j] # "absent"}}
                            |-> TruthOf(Str(nm),
                                        ts[CHOOSE i \in 1..n : FileAt(i, cs[i]).name.val = nm])]
    /\ files = <<>>
    /\ next_file = 1
    /\ all_results = <<>>
    /\ saved = NothingSaved
    /\ summary = NoSummary
    /\ rpc = "start"
    /\ source_file = Str("a.pdf")
    /\ CascadeIdle /\ LlmIdle /\ PdfIdle /\ CompareIdle

\* main.py, lines 75-82: the checks before the loop
Begin ==
    /\ rpc = "start"
    /\ files' = IF input_exists THEN InvoiceFiles(listing, 1) ELSE <<>>
    /\ rpc' = IF input_exists /\ InvoiceFiles(listing, 1) # <<>> THEN "loop" ELSE "returned"
    /\ UNCHANGED <<input_exists, listing, gt_data, next_file, all_results, saved, summary,
                   cvars, lvars, pvars, mvars>>

\* one iteration of the loop over files
ProcessFile ==
    /\ rpc = "loop"
    /\ next_file <= Len(files)
    /\ \E o \in TryDocument(files[next_file], gt_data) :
         LET after == Iteration(o, all_results) IN
         /\ all_results' = after.results
         /\ rpc' = IF after.crashed THEN "crashed" ELSE "loop"
    /\ next_file' = next_file + 1
    /\ UNCHANGED <<input_exists, listing, gt_data, files, saved, summary,
                   cvars, lvars, pvars, mvars>>

\* after the loop: save_results, then the summary statistics
Finish ==
    /\ rpc = "loop"
    /\ next_file > Len(files)
    /\ \E extension \in {".json", ".csv", ".xml"} :
         saved' = save_results(all_results, extension, saved)
    /\ \E sm \in Summaries(all_results) : summary' = sm
    /\ rpc' = "done"
    /\ UNCHANGED <<input_exists, listing, gt_data, files, next_file, all_results,
                   cvars, lvars, pvars, mvars>>

Next == Begin \/ ProcessFile \/ Finish
Spec == InitRun /\ [][Next]_vars

(***************************************************************************)
(* Properties                                                              *)
(***************************************************************************)
Range(xs) == {xs[i] : i \in 1..Len(xs)}
AllNull(record) == \A k \in Fields : record[k] = None

\* the outcomes of the external step after which there is nothing to map
Failure ==
    \/ entry = "field_extractor.extract_fields"
    \/ svc.create # "ok"
    \/ svc.content.json # "object"

\* C1: the model-based strategy never raises; it returns a record with doc_type
\* "invoice" and the given source_file, and after a service error, an import
\* failure, an unparseable response or a parsed value that is not a mapping
\* the five extractable fields are all null.
C1_LlmNeverPropagates ==
    lpc = "done" =>
        /\ ~llm_out.raised
        /\ llm_out.value.doc_type = Str("invoice")
        /\ llm_out.value.source_file = source_file
        /\ DOMAIN llm_out.value = Keys
        /\ Failure => AllNull(llm_out.value)

C1_Witness ==
    /\ lpc = "done"
    /\ entry = "extract_with_llm"
    /\ svc.create = "ok"
    /\ svc.content.json = "array"
    /\ llm_out = Ok(EmptyRecord(source_file))

Missed(p) == ~search(p, Render(doc)).found
Blank == Range(doc) \subseteq {NL}

\* C2: the regex cascade never raises; it returns a complete record with
\* doc_type "invoice" and the given source_file, a field none of whose tiers
\* matches is null, and for an empty or whitespace-only text all five fields
\* are null.
C2_RegexNeverFails ==
    cpc = "done" =>
        /\ ~out.raised
        /\ DOMAIN out.value = Keys
        /\ out.value.doc_type = Str("invoice")
        /\ out.value.source_file = source_file
        /\ (Missed(InvoiceHashPattern) /\ Missed(InvoiceNoPattern) /\ Missed(InvBillPattern))
               => out.value.invoice_number = None
        /\ (Missed(LabeledDatePattern) /\ Missed(AnyDatePattern))
               => out.value.invoice_date = None
        /\ "Acme Ltd" \notin Range(doc) => out.value.vendor_name = None
        /\ "$230.50" \notin Range(doc) =>
               out.value.total_amount = None /\ out.value.currency = None
        /\ Blank => AllNull(out.value)

C2_Witness ==
    /\ cpc = "done"
    /\ doc = <<NL, NL>>
    /\ out = Ok(EmptyRecord(source_file))

\* whether the try block of one file raises, read off the file and the ground truth
Fails(file) ==
    \/ file.kind = "txt" /\ file.read.raised
    \/ file.kind = "pdf" /\ ~file.pdf.opens
    \/ file.kind = "pdf" /\ \E i \in 1..Len(file.pdf.pages) :
           ~NotBlank(file.pdf.pages[i].embedded) /\ file.pdf.pages[i].ocr.raised
    \/ file.name.val \in DOMAIN gt_data /\ DOMAIN gt_data[file.name.val] = {"source_file"}

RECURSIVE Survivors(_, _)
\* the names of the first n files that do not fail, in enumeration order
Survivors(fs, n) ==
    IF n = 0 THEN <<>>
    ELSE Survivors(fs, n - 1) \o (IF Fails(fs[n]) THEN <<>> ELSE <<fs[n].name>>)

\* C3: a failure while processing one document is caught at the document
\* level: no exception leaves the loop, the failed document contributes no
\* record, every later document is still processed, and the result list holds
\* exactly one record per document that did not fail, in enumeration order.
C3_FailuresStayInDocument ==
    /\ rpc # "crashed"
    /\ rpc \in {"loop", "done"} =>
           /\ next_file <= Len(files) + 1
           /\ [i \in 1..Len(all_results) |-> all_results[i].source_file]
                  = Survivors(files, next_file - 1)
    /\ rpc = "done" => next_file = Len(files) + 1

C3_Witness ==
    /\ rpc = "done"
    /\ Len(files) = 2
    /\ Fails(files[1])
    /\ ~Fails(files[2])
    /\ Len(all_results) = 1
    /\ all_results[1].source_file = files[2].name

\* what a page gives when a failed OCR counts as an empty string
PageText(page) ==
    IF NotBlank(page.embedded) THEN page.embedded
    ELSE IF page.ocr.raised THEN ""
    ELSE page.ocr.value

RECURSIVE Concatenated(_, _)
Concatenated(ps, n) ==
    IF n = 0 THEN "" ELSE Concatenated(ps, n - 1) \o PageText(ps[n]) \o "\n"

\* C4: when the OCR step of a page without embedded text raises, the failure
\* is caught, the page contributes an empty string, the remaining pages are
\* still acquired in page order, and the call returns the concatenated text.
C4_OcrFailureIsCaught ==
    (ppc = "done" /\ pdf.opens) =>
        /\ ~pdf_out.raised
        /\ pdf_out.value = IF reader = "field_extractor"
                           THEN Concatenated(pdf.pages, Len(pdf.pages))
                           ELSE Join("\n", [i \in 1..Len(pdf.pages) |-> PageText(pdf.pages[i])])

Scorable == gt # None /\ DOMAIN gt # {"source_file"}
TruthFields == DOMAIN gt \ {"source_file"}
Matching(fields) == {k \in TruthFields : PyEq(Get(fields, k), gt[k])}
\* a is num/den * 100 rounded to two decimals, in hundredths of a percent
IsPercentage(a, num, den) ==
    /\ a \in 0..10000
    /\ 2 * a * den - 20000 * num <= den
    /\ 20000 * num - 2 * a * den <= den

\* C5: for a document whose ground truth has a field besides source_file, the
\* accuracy of each strategy is the number of ground-truth fields the strategy
\* got right over the number of ground-truth fields, source_file excluded,
\* times 100, rounded to two decimals; one of two fields right gives 50.0, and
\* the value lies between 0 and 100.
C5_AccuracyIsTheShareOfCorrectFields ==
    (mpc = "done" /\ Scorable) =>
        /\ ~compared.raised
        /\ IsPercentage(compared.value.accuracy.regex,
                        Cardinality(Matching(fields_regex)), Cardinality(TruthFields))
        /\ IsPercentage(compared.value.accuracy.llm,
                        Cardinality(Matching(fields_llm)), Cardinality(TruthFields))
        /\ (TruthFields = {"invoice_number", "total_amount"}
              /\ Matching(fields_regex) = {"invoice_number"})
               => compared.value.accuracy.regex = 5000

C5_Witness ==
    /\ mpc = "done"
    /\ gt = [invoice_number |-> Str("INV-1"), total_amount |-> Float(10000),
             source_file |-> Str("a.pdf")]
    /\ fields_regex.invoice_number = Str("INV-1")
    /\ fields_regex.total_amount = Float(23050)
    /\ ~compared.raised
    /\ compared.value.accuracy.regex = 5000

\* the results of the documents that had a ground-truth record
WithTruth == {i \in 1..Len(all_results) : all_results[i].source_file.val \in DOMAIN gt_data}
RECURSIVE SumOfScored(_, _)
SumOfScored(strategy, n) ==
    IF n = 0 THEN 0
    ELSE SumOfScored(strategy, n - 1)
         + (IF n \in WithTruth THEN all_results[n].accuracy[strategy] ELSE 0)

\* C6: the average accuracy reported for each strategy is the mean of the
\* per-document accuracy over exactly the documents that had a ground-truth
\* record; documents without ground truth do not enter the mean.
C6_AverageOverScoredDocuments ==
    (rpc = "done" /\ summary.logged /\ WithTruth # {}) =>
        /\ summary.regex_avg
              \in Rounded(SumOfScored("regex", Len(all_results)), Cardinality(WithTruth))
        /\ summary.llm_avg
              \in Rounded(SumOfScored("llm", Len(all_results)), Cardinality(WithTruth))

Differing == {k \in Keys : ~PyEq(fields_regex[k], fields_llm[k])}

\* C7: differences holds a field name exactly when the two strategies' values
\* for the field are not equal (null and null are equal), each entry carries
\* both values, identical records give an empty mapping, and records that
\* differ only in currency give the single key currency.
C7_DifferencesAreTheUnequalFields ==
    (mpc = "done" /\ ~compared.raised) =>
        /\ DOMAIN compared.value.differences = Differing
        /\ \A k \in DOMAIN compared.value.differences :
              compared.value.differences[k]
                  = [regex |-> fields_regex[k], llm |-> fields_llm[k]]
        /\ fields_regex = fields_llm => DOMAIN compared.value.differences = {}
        /\ (\A k \in Keys \ {"currency"} : fields_regex[k] = fields_llm[k])
               /\ fields_regex.currency # fields_llm.currency
               => DOMAIN compared.value.differences = {"currency"}

C7_Witness ==
    /\ mpc = "done"
    /\ ~compared.raised
    /\ fields_regex.currency = None
    /\ fields_llm.currency = Str("GBP")
    /\ \A k \in Keys \ {"currency"} : fields_regex[k] = fields_llm[k]
    /\ DOMAIN compared.value.differences = {"currency"}

\* the value of an amount phrase, in hundredths
Amounts ==
    [p \in TotalPhrases \ {"Amount Due:"} |->
        CASE p = "45.00" -> 4500
          [] p = "100.00" -> 10000
          [] p = "230.50" -> 23050
          [] p = "999.99" -> 99999
          [] p = "1,200.00" -> 120000]
Labeled ==
    \E i \in 1..(Len(doc) - 1) : doc[i] = "Amount Due:" /\ doc[i + 1] \in DOMAIN Amounts
\* the amounts of the text that are strictly greater than 100
Candidates == {Amounts[p] : p \in {q \in Range(doc) \cap DOMAIN Amounts : Amounts[q] > 10000}}

\* C8: when no labeled total matches, total_amount is the largest two-decimal
\* number of the text that is strictly greater than 100, and null when there
\* is none; the fallback never gives a value of 100 or less.
C8_FallbackAboveThreshold ==
    (cpc = "done" /\ ~Labeled) =>
        /\ ~out.raised
        /\ out.value.total_amount =
              IF Candidates = {} THEN None
              ELSE Float(CHOOSE c \in Candidates : \A d \in Candidates : d <= c)

\* a "Web:" line followed by a line that holds no address
WebThenName ==
    \E i \in 1..(Len(doc) - 2) :
        doc[i] = "Web: acme.io" /\ doc[i + 1] = NL /\ doc[i + 2] = "Acme Widgets"

\* C9: for a text without a legal-entity suffix that holds a "Web:" label
\* followed by a line with no address indicator, vendor_name is that line.
C9_VendorAfterWebLabel ==
    (cpc = "done" /\ "Acme Ltd" \notin Range(doc) /\ WebThenName) =>
        /\ ~out.raised
        /\ out.value.vendor_name = Str("Acme Widgets")

Codes == {"GBP", "USD", "INR", "EUR", "CAD", "AUD"}
CodeAt(i) == i \in 1..Len(doc) /\ Upper(doc[i]) \in Codes
\* the currency the priority order gives for the phrases of doc
Resolved ==
    IF \E i \in 1..Len(doc) : CodeAt(i)
    THEN Str(Upper(doc[CHOOSE i \in 1..Len(doc) : CodeAt(i) /\ \A j \in 1..(i - 1) : ~CodeAt(j)]))
    ELSE IF "£" \in Range(doc) THEN Str("GBP")
    ELSE IF "$" \in Range(doc) THEN Str("USD")
    ELSE IF "₹" \in Range(doc) THEN Str("INR")
    ELSE None

\* C10: a three-letter code of the six in the text wins; otherwise the
\* symbols are tried in the order pound, dollar, rupee; otherwise currency is
\* null.  The result is null or one of the six codes.
C10_CurrencyPriority ==
    cpc = "done" =>
        /\ ~out.raised
        /\ out.value.currency = Resolved
        /\ out.value.currency \in {None} \cup {Str(c) : c \in Codes}

C10_Witness ==
    /\ cpc = "done"
    /\ Range(doc) = {"£", "$"}
    /\ doc[1] = "$"
    /\ out.value.currency = Str("GBP")

====
